---------------------------- MODULE Spec2Model ----------------------------
(***************************************************************************)
(* A model of the activity feed of zap-desktop:                            *)
(*   src/renderer/reducers/activity.js                                     *)
(* the activity reducer and its action handlers, the activity paginator    *)
(* singleton with the fetchActivityHistory / loadNextPage / resetActivity  *)
(* thunks, and the pure list functions addDate and groupActivity.          *)
(*                                                                         *)
(* and the backup provider factory                                         *)
(*   src/electron/walletBackup/serviceFactory.js                           *)
(*                                                                         *)
(* The specifications share the variables:                                 *)
(*   Spec         the thunks and the paginator (asynchronous page loads)   *)
(*   SpecFilter   the filter actions of the reducer                        *)
(*   SpecReducer  every action handler of the reducer                      *)
(*   SpecGroup    addDate and groupActivity applied to bounded item lists  *)
(*   SpecSearch   applySearch applied to bounded item lists and queries    *)
(*   SpecView     the category selectors and currentActivity               *)
(*   SpecBackup   getBackupService                                         *)
(*   SpecCountdown  the Countdown component of src/unnamed/part_000        *)
(***************************************************************************)
EXTENDS Integers, Sequences, FiniteSets, Bags, TLC

VARIABLES
    activity,      \* the state container of the activity reducer
    log,           \* the redux actions dispatched by the last operation, in order
    lastOp,        \* the name of the last operation that ran
    paginator,     \* the module-level cached paginator reference
    paginators,    \* the paginator objects created so far: id -> [cursor, epoch]
    inflight,      \* the loadNextPage calls suspended at their await
    calls,         \* how many times a paginator has been invoked
    resets,        \* how many times resetActivity has run
    transactions,  \* items accepted by receiveTransactions
    invoices,      \* items accepted by receiveInvoices
    payments,      \* items accepted by receivePayments
    unhandled,     \* the error of the last rejected loadNextPage promise (nobody handles it)
    resolved,      \* the page the paginator resolved with in the step just taken, if any
    pc,            \* position of the list pipeline (SpecGroup, SpecSearch, SpecView)
    entries,       \* raw ledger entries (input of addDate)
    items,         \* entries decorated by addDate (input of applySearch / groupActivity)
    grouped,       \* output of groupActivity
    query,         \* the search text given to applySearch
    found,         \* output of applySearch
    refound,       \* output of applySearch applied to its own output
    ledger,        \* the pools the selectors of the sibling reducers return
    backup,        \* getBackupService: last argument, its outcome, providers created
    countdown,     \* the Countdown components and the interval timers of the window
    timeZone       \* seconds the local time of the process is ahead of UTC

vars == <<activity, log, lastOp, paginator, paginators, inflight, calls, resets,
          transactions, invoices, payments, unhandled, resolved, pc, entries, items,
          grouped, query, found, refound, ledger, backup, countdown, timeZone>>

fetchVars == <<paginator, paginators, inflight, calls, resets,
               transactions, invoices, payments, unhandled, resolved>>

\* The variables of the list functions, the selectors and the backup factory.
groupVars == <<pc, entries, items, grouped, query, found, refound, ledger, backup, countdown,
               timeZone>>

-----------------------------------------------------------------------------
(* Bounds of the model *)

MaxListLen == 2      \* longest filterList of a CHANGE_FILTER / ADD_FILTER action
MaxCalls == 2        \* paginator invocations in one behaviour
MaxResets == 1       \* resetActivity calls in one behaviour
MaxLen == 3          \* longest list given to groupActivity
MaxRequests == 3     \* calls of getBackupService
MaxTxs == 1          \* transactions in the ledger the selectors read
MaxCountdowns == 2   \* Countdown components on the page
MaxFires == 2        \* runs of the interval callback of one component

-----------------------------------------------------------------------------
(* Values *)

Null == "null"

\* null or undefined where a string (a sequence of characters) is expected
NoText == <<Null>>

Range(s) == {s[i] : i \in DOMAIN s}

SeqsUpTo(S, n) == UNION {[1..k -> S] : k \in 0..n}

defaultFilter ==
    {"SENT_ACTIVITY", "RECEIVED_ACTIVITY", "PENDING_ACTIVITY",
     "EXPIRED_ACTIVITY", "INTERNAL_ACTIVITY"}

initialState ==
    [filter                |-> defaultFilter,
     filters               |-> <<"SENT_ACTIVITY", "RECEIVED_ACTIVITY", "PENDING_ACTIVITY",
                                 "EXPIRED_ACTIVITY", "INTERNAL_ACTIVITY">>,
     modal                 |-> [itemType |-> Null, itemId |-> Null],
     errorDialogDetails    |-> Null,
     searchText            |-> NoText,
     isActivityLoading     |-> FALSE,
     activityLoadingError  |-> Null,
     hasNextPage           |-> TRUE]

Errors == {"error1", "error2"}

-----------------------------------------------------------------------------
(* Action handlers of the reducer *)

\* filterList.forEach(item => filter.has(item) ? filter.delete(item) : filter.add(item))
RECURSIVE ToggleEach(_, _)
ToggleEach(filter, filterList) ==
    IF filterList = <<>> THEN filter
    ELSE LET item == Head(filterList)
         IN  ToggleEach(IF item \in filter THEN filter \ {item} ELSE filter \cup {item},
                        Tail(filterList))

\* filterList.forEach(item => filter.add(item))
RECURSIVE AddEach(_, _)
AddEach(filter, filterList) ==
    IF filterList = <<>> THEN filter
    ELSE AddEach(filter \cup {Head(filterList)}, Tail(filterList))

OnShowActivityModal(state, action) ==
    [state EXCEPT !.modal = [itemType |-> action.itemType, itemId |-> action.itemId]]

OnHideActivityModal(state, action) ==
    [state EXCEPT !.modal = [itemType |-> Null, itemId |-> Null]]

\* (variant: every key of the list is removed, none is added)
OnlyRemovesFilter(state, action) ==
    [state EXCEPT !.filter = state.filter \ Range(action.filterList)]

\* (variant: a key is toggled once however often the list names it)
OnChangeFilterOncePerKey(state, action) ==
    [state EXCEPT !.filter = (state.filter \ Range(action.filterList))
                                \cup (Range(action.filterList) \ state.filter)]

OnChangeFilter(state, action) ==
    [state EXCEPT !.filter = ToggleEach(state.filter, action.filterList)]

\* (variant: without the filter.size > 0 guard)
AddsFilterAlways(state, action) ==
    [state EXCEPT !.filter = AddEach(state.filter, action.filterList)]

OnAddFilter(state, action) ==
    IF Cardinality(state.filter) > 0
    THEN [state EXCEPT !.filter = AddEach(state.filter, action.filterList)]
    ELSE state

OnUpdateSearchText(state, action) ==
    [state EXCEPT !.searchText = action.searchText]

\* (variant: a new fetch also clears the error of the previous one)
OnFetchActivityHistoryClearsError(state, action) ==
    [state EXCEPT !.isActivityLoading = TRUE, !.activityLoadingError = Null]

OnFetchActivityHistory(state, action) ==
    [state EXCEPT !.isActivityLoading = TRUE]

\* (variant: a completed fetch clears the error of an earlier one)
OnFetchActivityHistorySuccessClearsError(state, action) ==
    [state EXCEPT !.isActivityLoading = FALSE, !.activityLoadingError = Null]

OnFetchActivityHistorySuccess(state, action) ==
    [state EXCEPT !.isActivityLoading = FALSE]

OnFetchActivityHistoryFailure(state, action) ==
    [state EXCEPT !.isActivityLoading = FALSE, !.activityLoadingError = action.error]

OnOpenErrorDetailsDialog(state, action) ==
    [state EXCEPT !.errorDialogDetails = action.error]

OnCloseErrorDetailsDialog(state, action) ==
    [state EXCEPT !.errorDialogDetails = Null]

OnSetHasNextPage(state, action) ==
    [state EXCEPT !.hasNextPage = action.value]

\* createReducer(initialState, ACTION_HANDLERS): the handler of the action's type,
\* and the state as it is for a type without a handler (the receive* actions).
reducer(state, action) ==
    CASE action.type = "SHOW_ACTIVITY_MODAL" -> OnShowActivityModal(state, action)
      [] action.type = "HIDE_ACTIVITY_MODAL" -> OnHideActivityModal(state, action)
      [] action.type = "CHANGE_FILTER" -> OnChangeFilter(state, action)
      [] action.type = "ADD_FILTER" -> OnAddFilter(state, action)
      [] action.type = "UPDATE_SEARCH_TEXT" -> OnUpdateSearchText(state, action)
      [] action.type = "FETCH_ACTIVITY_HISTORY" -> OnFetchActivityHistory(state, action)
      [] action.type = "FETCH_ACTIVITY_HISTORY_SUCCESS" ->
            OnFetchActivityHistorySuccess(state, action)
      [] action.type = "FETCH_ACTIVITY_HISTORY_FAILURE" ->
            OnFetchActivityHistoryFailure(state, action)
      [] action.type = "OPEN_ERROR_DETAILS_DIALOG" -> OnOpenErrorDetailsDialog(state, action)
      [] action.type = "CLOSE_ERROR_DETAILS_DIALOG" -> OnCloseErrorDetailsDialog(state, action)
      [] action.type = "SET_HAS_NEXT_PAGE" -> OnSetHasNextPage(state, action)
      [] OTHER -> state

\* The state after dispatching a list of actions in order.
RECURSIVE dispatchAll(_, _)
dispatchAll(state, actions) ==
    IF actions = <<>> THEN state
    ELSE dispatchAll(reducer(state, Head(actions)), Tail(actions))

-----------------------------------------------------------------------------
(* Selectors of the filter *)

\* (variant: the filter set as it is, without the fallback for the empty set)
noEmptyFallback(filters) == filters

\* const curFilter = filters.size ? filters : defaultFilter
curFilter(filters) == IF Cardinality(filters) # 0 THEN filters ELSE defaultFilter

\* The categories whose pool currentActivity pushes into its result.
shownCategories(filters) == {c \in defaultFilter : c \in curFilter(filters)}


-----------------------------------------------------------------------------
(* The paginator singleton and the thunks *)

\* let paginator = null
NoPaginator == 0

\* What the discriminator of loadNextPage reads of an item: whether dest_addresses
\* is truthy and whether the key add_index is present.
Shape(dest, add) == [dest_addresses |-> dest, add_index |-> add]

\* The pages the paginator is taken to return: the empty page, every page of one
\* item, a page that mixes two kinds, and a page with two items of one kind around an
\* item of another.
PageShapes ==
    {<<>>,
     <<Shape(TRUE, FALSE)>>, <<Shape(TRUE, TRUE)>>, <<Shape(FALSE, TRUE)>>,
     <<Shape(FALSE, FALSE)>>,
     <<Shape(FALSE, FALSE), Shape(TRUE, FALSE)>>,
     <<Shape(TRUE, FALSE), Shape(FALSE, TRUE), Shape(TRUE, TRUE)>>}

\* A page as the paginator resolves it for the call c: { items, hasNextPage }. An
\* item carries, besides its shape, the paginator it comes from (src).
Pages(c) ==
    {[items |-> [i \in DOMAIN shapes |->
                    [src |-> c.pag, dest_addresses |-> shapes[i].dest_addresses,
                     add_index |-> shapes[i].add_index]],
      hasNextPage |-> more] : shapes \in PageShapes, more \in BOOLEAN}

\* createActivityPaginator(): a new paginator object whose cursor is at the start.
\* epoch records the number of resets before its creation.
createActivityPaginator(heap, epoch) == Append(heap, [cursor |-> 0, epoch |-> epoch])

\* (variant: a paginator is created on every access)
getPaginatorUncached(ref, heap, epoch) ==
    [ref |-> Len(heap) + 1, heap |-> createActivityPaginator(heap, epoch)]

\* getPaginator(): the cached paginator, created on first access.
getPaginator(ref, heap, epoch) ==
    IF ref = NoPaginator
    THEN [ref |-> Len(heap) + 1, heap |-> createActivityPaginator(heap, epoch)]
    ELSE [ref |-> ref, heap |-> heap]

\* (variant: the key add_index is looked at before dest_addresses)
getItemTypeIndexFirst(item) ==
    IF item.add_index THEN "invoices"
    ELSE IF item.dest_addresses THEN "transactions"
    ELSE "payments"

\* const getItemType = item => ...
getItemType(item) ==
    IF item.dest_addresses THEN "transactions"
    ELSE IF item.add_index THEN "invoices"
    ELSE "payments"

\* groupBy(items, getItemType)[kind]: the items of the kind, in page order.
groupBy(pageItems, kind) == SelectSeq(pageItems, LAMBDA item : getItemType(item) = kind)

\* The actions loadNextPage dispatches after its await, in order.
pageActions(page) ==
    LET inv == groupBy(page.items, "invoices")
        pay == groupBy(page.items, "payments")
        txs == groupBy(page.items, "transactions")
    IN  <<[type |-> "SET_HAS_NEXT_PAGE", value |-> page.hasNextPage]>>
        \o (IF inv # <<>> THEN <<[type |-> "RECEIVE_INVOICES", items |-> inv]>> ELSE <<>>)
        \o (IF pay # <<>> THEN <<[type |-> "RECEIVE_PAYMENTS", items |-> pay]>> ELSE <<>>)
        \o (IF txs # <<>> THEN <<[type |-> "RECEIVE_TRANSACTIONS", items |-> txs]>> ELSE <<>>)

\* The items a list of dispatched actions hands to the reducer of one kind.
RECURSIVE received(_, _)
received(actions, type) ==
    IF actions = <<>> THEN {}
    ELSE (IF Head(actions).type = type THEN Range(Head(actions).items) ELSE {})
         \cup received(Tail(actions), type)

\* (variant: a page is requested only when no other request is outstanding)
loadNextPageSerialized(state, origin) ==
    LET g == getPaginator(paginator, paginators, resets)
    IN  /\ paginator' = g.ref
        /\ IF state.hasNextPage /\ inflight = {}
           THEN /\ calls < MaxCalls
                /\ paginators' = [g.heap EXCEPT ![g.ref].cursor = @ + 1]
                /\ inflight' = inflight \cup
                      {[seq |-> calls + 1, pag |-> g.ref, page |-> g.heap[g.ref].cursor,
                        origin |-> origin, epoch |-> resets]}
                /\ calls' = calls + 1
           ELSE /\ paginators' = g.heap
                /\ UNCHANGED <<inflight, calls>>
        /\ UNCHANGED <<resets, transactions, invoices, payments, unhandled>>

\* loadNextPage up to its await: getPaginator(), the hasNextPage test on the state
\* read by getState(), and the paginator invocation, which suspends the call.
loadNextPage(state, origin) ==
    LET g == getPaginator(paginator, paginators, resets)
    IN  /\ paginator' = g.ref
        /\ IF state.hasNextPage
           THEN /\ calls < MaxCalls
                /\ paginators' = [g.heap EXCEPT ![g.ref].cursor = @ + 1]
                /\ inflight' = inflight \cup
                      {[seq |-> calls + 1, pag |-> g.ref, page |-> g.heap[g.ref].cursor,
                        origin |-> origin, epoch |-> resets]}
                /\ calls' = calls + 1
           ELSE /\ paginators' = g.heap
                /\ UNCHANGED <<inflight, calls>>
        /\ UNCHANGED <<resets, transactions, invoices, payments, unhandled>>

\* dispatch(loadNextPage()) from the user interface.
LoadNextPage ==
    /\ loadNextPage(activity, "loadNextPage")
    /\ lastOp' = "loadNextPage"
    /\ log' = <<>>
    /\ resolved' = {}
    /\ UNCHANGED <<activity, groupVars>>

\* (variant: the success is left to the completion of the page fetch)
FetchActivityHistoryAwaitsPage ==
    /\ log' = <<[type |-> "FETCH_ACTIVITY_HISTORY"]>>
    /\ loadNextPage(reducer(activity, log'[1]), "fetchActivityHistory")
    /\ activity' = dispatchAll(activity, log')
    /\ lastOp' = "fetchActivityHistory"
    /\ resolved' = {}
    /\ UNCHANGED groupVars

\* fetchActivityHistory whose dispatches inside the try block return normally: the
\* promise of loadNextPage is not awaited, and FETCH_ACTIVITY_HISTORY_SUCCESS follows.
FetchActivityHistory ==
    /\ log' = <<[type |-> "FETCH_ACTIVITY_HISTORY"],
                [type |-> "FETCH_ACTIVITY_HISTORY_SUCCESS"]>>
    /\ loadNextPage(reducer(activity, log'[1]), "fetchActivityHistory")
    /\ activity' = dispatchAll(activity, log')
    /\ lastOp' = "fetchActivityHistory"
    /\ resolved' = {}
    /\ UNCHANGED groupVars

\* fetchActivityHistory when fetchDescribeNetwork, fetchChannels or fetchBalance
\* throws synchronously: the catch block dispatches the failure, loadNextPage is
\* not reached.
FetchActivityHistoryThrows ==
    \E error \in Errors :
        /\ log' = <<[type |-> "FETCH_ACTIVITY_HISTORY"],
                    [type |-> "FETCH_ACTIVITY_HISTORY_FAILURE", error |-> error]>>
        /\ activity' = dispatchAll(activity, log')
        /\ lastOp' = "fetchActivityHistory"
        /\ resolved' = {}
        /\ UNCHANGED <<paginator, paginators, inflight, calls, resets,
                       transactions, invoices, payments, unhandled, groupVars>>

\* loadNextPage after its await, the paginator having resolved with a page.
PageResolves ==
    \E c \in inflight : \E page \in Pages(c) :
        /\ inflight' = inflight \ {c}
        /\ resolved' = {page}
        /\ log' = pageActions(page)
        /\ activity' = dispatchAll(activity, log')
        /\ invoices' = invoices \cup received(log', "RECEIVE_INVOICES")
        /\ payments' = payments \cup received(log', "RECEIVE_PAYMENTS")
        /\ transactions' = transactions \cup received(log', "RECEIVE_TRANSACTIONS")
        /\ lastOp' = "pageResolved"
        /\ UNCHANGED <<paginator, paginators, calls, resets, unhandled, groupVars>>

\* The paginator rejects: the promise of loadNextPage rejects, and no caller has
\* attached a handler to it.
PageRejects ==
    \E c \in inflight : \E error \in Errors :
        /\ inflight' = inflight \ {c}
        /\ unhandled' = error
        /\ log' = <<>>
        /\ resolved' = {}
        /\ lastOp' = "pageRejected"
        /\ UNCHANGED <<activity, paginator, paginators, calls, resets,
                       transactions, invoices, payments, groupVars>>

\* (variant: the reset also drops the outstanding page requests)
resetActivityCancels ==
    /\ resets < MaxResets
    /\ paginator' = NoPaginator
    /\ inflight' = {}
    /\ resets' = resets + 1
    /\ lastOp' = "resetActivity"
    /\ log' = <<>>
    /\ resolved' = {}
    /\ UNCHANGED <<activity, paginators, calls,
                   transactions, invoices, payments, unhandled, groupVars>>

\* (variant: the reset leaves the cached paginator in place)
resetActivityKeeps ==
    /\ resets < MaxResets
    /\ resets' = resets + 1
    /\ lastOp' = "resetActivity"
    /\ log' = <<>>
    /\ resolved' = {}
    /\ UNCHANGED <<activity, paginator, paginators, inflight, calls,
                   transactions, invoices, payments, unhandled, groupVars>>

\* resetActivity: paginator = null
resetActivity ==
    /\ resets < MaxResets
    /\ paginator' = NoPaginator
    /\ resets' = resets + 1
    /\ lastOp' = "resetActivity"
    /\ log' = <<>>
    /\ resolved' = {}
    /\ UNCHANGED <<activity, paginators, inflight, calls,
                   transactions, invoices, payments, unhandled, groupVars>>

InitFetch ==
    /\ paginator = NoPaginator
    /\ paginators = <<>>
    /\ inflight = {}
    /\ calls = 0
    /\ resets = 0
    /\ transactions = {}
    /\ invoices = {}
    /\ payments = {}
    /\ unhandled = Null
    /\ resolved = {}

\* No Countdown component has been constructed, no interval timer is set.
InitNoCountdown == countdown = [components |-> <<>>, timers |-> {}, nextTimer |-> 1]

\* The time zones a process is run in: UTC-5 (America/New_York), UTC and UTC+9
\* (Asia/Tokyo), as seconds ahead of UTC. None of them changes its offset during the
\* first days of 1970, where the sample instants lie.
TimeZones == {-18000, 0, 32400}

\* The zone is set when the process starts and is not changed by the program.
InitTimeZone == timeZone \in TimeZones

\* The operations of the specification read no calendar field: one zone stands for all.
InitAnyTimeZone == timeZone = 0

\* No provider has been asked for.
InitBackup == backup = [provider |-> Null, outcome |-> Null, created |-> <<>>, requests |-> 0]

\* Empty pools of the payment, invoice and transaction reducers.
emptyLedger ==
    [payments |-> <<>>, paymentsSending |-> <<>>, invoices |-> <<>>,
     transactions |-> <<>>, transactionsSending |-> <<>>]

InitSearch ==
    /\ query = Null
    /\ found = <<>>
    /\ refound = <<>>

InitGroup ==
    /\ InitAnyTimeZone
    /\ pc = "idle"
    /\ entries = <<>>
    /\ items = <<>>
    /\ grouped = <<>>
    /\ InitSearch
    /\ ledger = emptyLedger
    /\ InitBackup
    /\ InitNoCountdown

Init ==
    /\ activity = initialState
    /\ log = <<>>
    /\ lastOp = "init"
    /\ InitFetch
    /\ InitGroup

Next ==
    \/ FetchActivityHistory
    \/ FetchActivityHistoryThrows
    \/ LoadNextPage
    \/ PageResolves
    \/ PageRejects
    \/ resetActivity

Spec == Init /\ [][Next]_vars


-----------------------------------------------------------------------------
(* Properties of the thunks and the paginator, under Spec *)

\* The items a list of dispatched actions hands to the three per-kind reducers.
receivedItems(actions) ==
    received(actions, "RECEIVE_INVOICES") \cup received(actions, "RECEIVE_PAYMENTS")
        \cup received(actions, "RECEIVE_TRANSACTIONS")

\* C1: every error during a fetch started by fetchActivityHistory ends with
\* FETCH_ACTIVITY_HISTORY_FAILURE applied: a synchronous throw inside the try block,
\* and likewise the rejection of the page fetch that fetchActivityHistory started,
\* leave activityLoadingError holding the error and isActivityLoading false.
C1_FetchErrorRecorded ==
    [][ /\ (lastOp' = "fetchActivityHistory" /\ log'[2].type = "FETCH_ACTIVITY_HISTORY_FAILURE")
            => (activity'.activityLoadingError = log'[2].error
                /\ ~activity'.isActivityLoading)
        /\ \A c \in inflight :
            (c.origin = "fetchActivityHistory" /\ c \notin inflight'
             /\ lastOp' = "pageRejected")
            => (activity'.activityLoadingError = unhandled'
                /\ ~activity'.isActivityLoading) ]_vars

\* C2: a page request that is outstanding when resetActivity runs is not cancelled.
\* A suspended call whose paginator is not (or no longer) the cached one stays
\* suspended until the paginator settles it; when it resolves, SET_HAS_NEXT_PAGE is
\* applied with the value of the old paginator and its items are handed to the
\* per-kind reducers.
C2_LateResponseDispatched ==
    [][ \A c \in inflight :
          c.pag # paginator' =>
            \/ c \in inflight'
            \/ lastOp' = "pageRejected"
            \/ /\ lastOp' = "pageResolved"
               /\ log'[1].type = "SET_HAS_NEXT_PAGE"
               /\ activity'.hasNextPage = log'[1].value
               /\ \A it \in receivedItems(log') : it.src = c.pag
               /\ receivedItems(log') \subseteq (transactions' \cup invoices' \cup payments')
      ]_vars

\* C2 witness: after a reset, a page of a paginator created before the reset has
\* just been dispatched; its items are in the stores and its hasNextPage (FALSE)
\* is in the state container.
C2_Witness ==
    /\ lastOp = "pageResolved"
    /\ resets >= 1
    /\ receivedItems(log) # {}
    /\ \A it \in receivedItems(log) :
          /\ paginators[it.src].epoch < resets
          /\ it.src # paginator
          /\ it \in (transactions \cup invoices \cup payments)
    /\ log[1].value = FALSE
    /\ activity.hasNextPage = FALSE

\* C3: page loads are not serialized. A loadNextPage that reads hasNextPage = TRUE
\* invokes the cached paginator and suspends, whatever calls are already suspended
\* (they stay suspended); calls started between the same resets hold the same
\* paginator; and every page that resolves sets hasNextPage to the value it
\* carries, so the last response dispatched decides the final value.
C3_OverlappingLoads ==
    /\ [][ (lastOp' = "loadNextPage" /\ activity.hasNextPage) =>
              /\ calls' = calls + 1
              /\ inflight \subseteq inflight'
              /\ \E c \in inflight' \ inflight :
                    /\ c.pag = paginator'
                    /\ (paginator # NoPaginator => c.pag = paginator) ]_vars
    /\ [](\A c1, c2 \in inflight : c1.epoch = c2.epoch => c1.pag = c2.pag)
    /\ [](lastOp = "pageResolved" => activity.hasNextPage = log[1].value)

\* C3 witness: two calls were made on the one paginator before either resolved, and
\* the call started second has resolved first, the first being still suspended.
C3_Witness ==
    /\ lastOp = "pageResolved"
    /\ calls = 2
    /\ resets = 0
    /\ Len(paginators) = 1
    /\ paginators[1].cursor = 2
    /\ \E c \in inflight : c.seq = 1 /\ c.pag = 1
    /\ activity.hasNextPage = log[1].value

\* C4: the paginator is a lazily created singleton. resetActivity leaves the cached
\* reference null; no two paginators are created between the same resets; every
\* suspended call holds the paginator created in the session the call was made in;
\* a paginator is created only when the cached reference is null, it is a new
\* object, and the first call on it gets its first page (cursor 0).
C4_PaginatorSingleton ==
    /\ [][resets' # resets => paginator' = NoPaginator]_vars
    /\ [](\A i, j \in DOMAIN paginators :
              paginators[i].epoch = paginators[j].epoch => i = j)
    /\ [](\A c \in inflight : paginators[c.pag].epoch = c.epoch)
    /\ [][ (paginator' # paginator /\ paginator' # NoPaginator) =>
              /\ paginator = NoPaginator
              /\ paginator' \notin DOMAIN paginators
              /\ paginators'[paginator'].epoch = resets
              /\ \A c \in inflight' \ inflight : c.pag = paginator' /\ c.page = 0 ]_vars
    /\ [][ \A c \in inflight' \ inflight : c.pag = paginator' ]_vars

\* C4 witness: a second paginator was created after a reset, the call made on it got
\* its first page, and the paginator of the previous session had advanced.
C4_Witness ==
    /\ resets = 1
    /\ Len(paginators) = 2
    /\ paginator = 2
    /\ paginators[1].cursor >= 1
    /\ \E c \in inflight : c.pag = 2 /\ c.page = 0 /\ c.epoch = 1

-----------------------------------------------------------------------------
(* SpecFilter: the filter actions of the reducer *)

\* The lists of keys the action creators changeFilter(...filterList) and
\* addFilter(...filterList) are called with.
FilterLists == SeqsUpTo(defaultFilter, MaxListLen)

\* dispatch(changeFilter(...filterList))
ChangeFilter ==
    \E filterList \in FilterLists :
        /\ log' = <<[type |-> "CHANGE_FILTER", filterList |-> filterList]>>
        /\ activity' = dispatchAll(activity, log')
        /\ lastOp' = "changeFilter"
        /\ UNCHANGED <<fetchVars, groupVars>>

\* dispatch(addFilter(...filterList))
AddFilter ==
    \E filterList \in FilterLists :
        /\ log' = <<[type |-> "ADD_FILTER", filterList |-> filterList]>>
        /\ activity' = dispatchAll(activity, log')
        /\ lastOp' = "addFilter"
        /\ UNCHANGED <<fetchVars, groupVars>>

NextFilter ==
    \/ ChangeFilter
    \/ AddFilter

SpecFilter == Init /\ [][NextFilter]_vars

\* C5 as stated: the view shows all five categories if and only if the filter set
\* is empty, and a non-empty filter set shows the categories it contains.
C5_AllShownIffEmpty ==
    /\ (shownCategories(activity.filter) = defaultFilter) <=> (activity.filter = {})
    /\ activity.filter # {} => shownCategories(activity.filter) = activity.filter

\* C5 amended: the view shows all five categories if and only if the filter set is
\* empty or holds all five keys (the initial filter set is the full set); a
\* non-empty filter set shows exactly the categories it contains.
C5_AllShownIffEmptyOrFull ==
    /\ (shownCategories(activity.filter) = defaultFilter)
          <=> (activity.filter = {} \/ activity.filter = defaultFilter)
    /\ activity.filter # {} => shownCategories(activity.filter) = activity.filter

\* C5 witness: the empty filter set, reached by toggling keys off, shows all five.
C5_Witness ==
    /\ lastOp = "changeFilter"
    /\ activity.filter = {}
    /\ shownCategories(activity.filter) = defaultFilter

\* C6: after CHANGE_FILTER with the one key k, CHANGE_FILTER with k again gives back
\* the state before the first of the two: toggle(toggle(F, k), k) = F.
C6_ToggleTwiceRestores ==
    [][ (lastOp' = "changeFilter" /\ Len(log'[1].filterList) = 1) =>
           reducer(activity', log'[1]) = activity ]_vars

\* C6 witness: a key has just been toggled off by CHANGE_FILTER with that one key.
C6_Witness ==
    /\ lastOp = "changeFilter"
    /\ Len(log[1].filterList) = 1
    /\ log[1].filterList[1] \notin activity.filter
    /\ activity.filter # {}

\* C7: ADD_FILTER leaves an empty filter set empty, for any list of keys, and turns a
\* non-empty filter set into its union with the keys; nothing else changes.
C7_AddFilter ==
    [][ lastOp' = "addFilter" =>
           activity' = [activity EXCEPT !.filter =
                           IF activity.filter = {} THEN {}
                           ELSE activity.filter \cup Range(log'[1].filterList)] ]_vars

\* C7 witness: ADD_FILTER with a non-empty list has just been applied to the empty
\* filter set, which is still empty.
C7_Witness ==
    /\ lastOp = "addFilter"
    /\ log[1].filterList # <<>>
    /\ activity.filter = {}

-----------------------------------------------------------------------------
(* The list pipeline: addDate and groupActivity *)

\* const daysBetween = (t1, t2) => Math.round((t2 - t1) / 86400)
SecondsPerDay == 86400

\* A JavaScript string is the sequence of its characters; str gives the sequence
\* of each string literal used below.
str(s) ==
    CASE s = "" -> <<>>
      [] s = "transaction" -> <<"t", "r", "a", "n", "s", "a", "c", "t", "i", "o", "n">>
      [] s = "invoice" -> <<"i", "n", "v", "o", "i", "c", "e">>
      [] s = "payment" -> <<"p", "a", "y", "m", "e", "n", "t">>
      [] s = "Jan" -> <<"J", "a", "n">>
      [] s = "Feb" -> <<"F", "e", "b">>
      [] s = "Mar" -> <<"M", "a", "r">>
      [] s = "Apr" -> <<"A", "p", "r">>
      [] s = "May" -> <<"M", "a", "y">>
      [] s = "Jun" -> <<"J", "u", "n">>
      [] s = "Jul" -> <<"J", "u", "l">>
      [] s = "Aug" -> <<"A", "u", "g">>
      [] s = "Sep" -> <<"S", "e", "p">>
      [] s = "Oct" -> <<"O", "c", "t">>
      [] s = "Nov" -> <<"N", "o", "v">>
      [] s = "Dec" -> <<"D", "e", "c">>
      [] s = "t1" -> <<"t", "1">>
      [] s = "t2" -> <<"t", "2">>
      [] s = "t3" -> <<"t", "3">>
      [] s = "p1" -> <<"p", "1">>
      [] s = "p2" -> <<"p", "2">>
      [] s = "p3" -> <<"p", "3">>
      [] s = "i1" -> <<"i", "1">>
      [] s = "i2" -> <<"i", "2">>
      [] s = "Alice's Node" -> <<"A", "l", "i", "c", "e", "'", "s", " ", "N", "o", "d", "e">>
      [] s = "Bob" -> <<"B", "o", "b">>
      [] s = "alice" -> <<"a", "l", "i", "c", "e">>
      [] s = "ALICE" -> <<"A", "L", "I", "C", "E">>
      [] s = "bc1Q" -> <<"b", "c", "1", "Q">>
      [] s = "bc1q" -> <<"b", "c", "1", "q">>
      [] s = "tb1x" -> <<"t", "b", "1", "x">>
      [] s = "an 1" -> <<"a", "n", " ", "1">>
      [] s = "z" -> <<"z">>
      [] s = "coffee" -> <<"c", "o", "f", "f", "e", "e">>
      [] s = "p4" -> <<"p", "4">>
      [] s = "t4" -> <<"t", "4">>
      [] s = "i3" -> <<"i", "3">>

UpperLetters ==
    <<"A", "B", "C", "D", "E", "F", "G", "H", "I", "J", "K", "L", "M",
      "N", "O", "P", "Q", "R", "S", "T", "U", "V", "W", "X", "Y", "Z">>

LowerLetters ==
    <<"a", "b", "c", "d", "e", "f", "g", "h", "i", "j", "k", "l", "m",
      "n", "o", "p", "q", "r", "s", "t", "u", "v", "w", "x", "y", "z">>

\* String.prototype.toLowerCase() on ASCII text
\* The lower-case letter of every upper-case letter.
lowerOf ==
    [c \in Range(UpperLetters) |->
        LowerLetters[CHOOSE k \in DOMAIN UpperLetters : UpperLetters[k] = c]]

toLowerCase(text) ==
    [i \in DOMAIN text |-> IF text[i] \in DOMAIN lowerOf THEN lowerOf[text[i]] ELSE text[i]]

\* String.prototype.includes(searchString)
includes(text, searchString) ==
    \E from \in 1 .. (Len(text) - Len(searchString) + 1) :
        SubSeq(text, from, from + Len(searchString) - 1) = searchString

Digits == <<"0", "1", "2", "3", "4", "5", "6", "7", "8", "9">>

\* `${n}` for a non-negative integer: its decimal digits
RECURSIVE decimal(_)
decimal(n) ==
    IF n < 10 THEN <<Digits[n + 1]>>
    ELSE Append(decimal(n \div 10), Digits[(n % 10) + 1])

months ==
    <<str("Jan"), str("Feb"), str("Mar"), str("Apr"), str("May"), str("Jun"),
      str("Jul"), str("Aug"), str("Sep"), str("Oct"), str("Nov"), str("Dec")>>

\* returnTimestamp(activity)
returnTimestamp(entry) ==
    CASE entry.type = str("transaction") -> entry.time_stamp
      [] entry.type = str("invoice") ->
            IF entry.settled THEN entry.settle_date ELSE entry.creation_date
      [] entry.type = str("payment") -> entry.creation_date
      [] OTHER -> Null

\* new Date(timestamp * 1000): the calendar fields getMonth() (from 0), getDate() and
\* getFullYear() of the instant, read in the local time zone of the process
\* (proleptic Gregorian calendar; \div rounds down, also before 1970).
DateFields(timestamp) ==
    LET local == timestamp + timeZone
        z     == (local \div SecondsPerDay) + 719468
        era   == z \div 146097
        doe   == z - era * 146097
        yoe   == (doe - doe \div 1460 + doe \div 36524 - doe \div 146096) \div 365
        doy   == doe - (365 * yoe + yoe \div 4 - yoe \div 100)
        mp    == (5 * doy + 2) \div 153
        day   == doy - (153 * mp + 2) \div 5 + 1
        month == IF mp < 10 THEN mp + 3 ELSE mp - 9
        year  == yoe + era * 400 + (IF month <= 2 THEN 1 ELSE 0)
    IN  [getMonth |-> month - 1, getDate |-> day, getFullYear |-> year]

\* `${months[d.getMonth()]} ${date}, ${d.getFullYear()}`
DateString(timestamp) ==
    LET d == DateFields(timestamp)
    IN  months[d.getMonth + 1] \o <<" ">> \o decimal(d.getDate) \o <<",", " ">>
            \o decimal(d.getFullYear)

\* addDate(entry): { ...entry, date, timestamp }
addDate(entry) ==
    LET timestamp == returnTimestamp(entry)
    IN  ("date" :> DateString(timestamp) @@ "timestamp" :> timestamp) @@ entry

\* (variant: the quotient is truncated instead of rounded)
daysBetweenTruncated(t1, t2) == (t2 - t1) \div SecondsPerDay

\* (variant: the operands of the subtraction exchanged)
daysBetweenSwapped(t1, t2) == (2 * (t1 - t2) + SecondsPerDay) \div (2 * SecondsPerDay)

\* daysBetween(t1, t2) = Math.round((t2 - t1) / 86400); Math.round(x) is floor(x + 1/2)
daysBetween(t1, t2) == (2 * (t2 - t1) + SecondsPerDay) \div (2 * SecondsPerDay)

\* One step of the stable sort: x goes behind every element the comparator
\* (a, b) => b.timestamp - a.timestamp does not put after it.
RECURSIVE insertSorted(_, _)
insertSorted(sorted, x) ==
    IF sorted = <<>> THEN <<x>>
    ELSE IF x.timestamp - Head(sorted).timestamp <= 0
         THEN <<Head(sorted)>> \o insertSorted(Tail(sorted), x)
         ELSE <<x>> \o sorted

RECURSIVE sortInto(_, _)
sortInto(sorted, data) ==
    IF data = <<>> THEN sorted
    ELSE sortInto(insertSorted(sorted, Head(data)), Tail(data))

\* (variant: the list is left in the order given)
sortSkipped(data) == data

\* data.sort((a, b) => b.timestamp - a.timestamp)
sortByTimestamp(data) == sortInto(<<>>, data)

\* .reduce((acc, next) => { ... }, [])
RECURSIVE groupReduce(_, _)
groupReduce(acc, data) ==
    IF data = <<>> THEN acc
    ELSE LET next == Head(data)
             title == [title |-> next.date]
             acc1 == IF acc # <<>>
                     THEN LET prev == acc[Len(acc)]
                              days == daysBetween(next.timestamp, prev.timestamp)
                          IN  IF days >= 1 THEN Append(acc, title) ELSE acc
                     ELSE Append(acc, title)
         IN  groupReduce(Append(acc1, next), Tail(data))

\* groupActivity(data)
groupActivity(data) == groupReduce(<<>>, sortByTimestamp(data))

\* Ledger entries as the transaction, payment and invoice reducers hold them.
Transaction(hash, time) ==
    [type |-> str("transaction"), tx_hash |-> str(hash), time_stamp |-> time]

Payment(hash, time) ==
    [type |-> str("payment"), payment_hash |-> str(hash), creation_date |-> time]

Invoice(request, created, isSettled, settleDate) ==
    [type |-> str("invoice"), payment_request |-> str(request), creation_date |-> created,
     settled |-> isSettled, settle_date |-> settleDate]

\* The entries the lists are drawn from: times at midnight, just before midnight, at
\* noon and just before noon of the first days of 1970.
SampleEntries ==
    {Transaction("t1", 0),
     Transaction("t2", SecondsPerDay),
     Transaction("t3", SecondsPerDay - 1),
     Payment("p1", SecondsPerDay \div 2),
     Payment("p2", SecondsPerDay \div 2 - 1),
     Payment("p3", SecondsPerDay),
     Invoice("i1", 0, TRUE, SecondsPerDay + SecondsPerDay \div 2),
     Invoice("i2", 2 * SecondsPerDay, FALSE, 0)}

InitPipeline ==
    /\ InitTimeZone
    /\ activity = initialState
    /\ log = <<>>
    /\ lastOp = "init"
    /\ InitFetch
    /\ pc = "entries"
    /\ entries \in SeqsUpTo(SampleEntries, MaxLen)
    /\ items = <<>>
    /\ grouped = <<>>
    /\ InitSearch
    /\ ledger = emptyLedger
    /\ InitBackup
    /\ InitNoCountdown

\* entries.map(addDate)
AddDates ==
    /\ pc = "entries"
    /\ items' = [i \in DOMAIN entries |-> addDate(entries[i])]
    /\ pc' = "items"
    /\ lastOp' = "addDate"
    /\ UNCHANGED <<activity, log, fetchVars, entries, grouped,
                   query, found, refound, ledger, backup, countdown, timeZone>>

\* grouped = groupActivity(items): data.sort works in place, so the array passed is
\* left in the sorted order.
GroupActivity ==
    /\ pc = "items"
    /\ grouped' = groupActivity(items)
    /\ items' = sortByTimestamp(items)
    /\ pc' = "grouped"
    /\ lastOp' = "groupActivity"
    /\ UNCHANGED <<activity, log, fetchVars, entries,
                   query, found, refound, ledger, backup, countdown, timeZone>>

NextGroup ==
    \/ AddDates
    \/ GroupActivity

SpecGroup == InitPipeline /\ [][NextGroup]_vars

isSeparator(entry) == "title" \in DOMAIN entry

\* The output of groupActivity without its separator entries.
dataItems(list) == SelectSeq(list, LAMBDA e : ~isSeparator(e))

separators(list) == SelectSeq(list, isSeparator)

\* The index of the data item before position i of the list (0 when there is none).
prevData(list, i) ==
    LET before == {j \in 1..(i - 1) : ~isSeparator(list[j])}
    IN  IF before = {} THEN 0 ELSE CHOOSE j \in before : \A k \in before : k <= j

\* C8: the output of groupActivity, separators removed, has non-increasing timestamps
\* and holds exactly the items of the input (the same multiset). The input is the
\* list as it was when groupActivity was called.
C8_SortedSameItems ==
    [][lastOp' = "groupActivity" =>
        LET out == dataItems(grouped')
        IN  /\ \A i \in 1..(Len(out) - 1) : out[i].timestamp >= out[i + 1].timestamp
            /\ Len(out) = Len(items)
            /\ \A e \in Range(items) \cup Range(out) :
                  Cardinality({i \in DOMAIN out : out[i] = e})
                      = Cardinality({i \in DOMAIN items : items[i] = e})]_vars

\* C8 witness: a list of three entries given out of order, one of them twice, has
\* been decorated and grouped.
C8_Witness ==
    /\ pc = "grouped"
    /\ Len(entries) = 3
    /\ returnTimestamp(entries[1]) < returnTimestamp(entries[2])
    /\ entries[3] = entries[1]
    /\ Len(dataItems(grouped)) = 3
    /\ dataItems(grouped)[1].timestamp = returnTimestamp(entries[2])

\* C9: in the output of groupActivity on a non-empty list a separator comes right
\* before the first data item, and right before every data item whose timestamp is
\* at least 86400 less than that of the data item before it; two items with the
\* timestamps 0 and 86400 give two separators.
C9_SeparatorAfterDayGap ==
    (pc = "grouped" /\ items # <<>>) =>
        /\ isSeparator(grouped[1])
        /\ ~isSeparator(grouped[2])
        /\ \A i \in DOMAIN grouped :
              (~isSeparator(grouped[i]) /\ prevData(grouped, i) # 0
               /\ grouped[prevData(grouped, i)].timestamp - grouped[i].timestamp
                     >= SecondsPerDay)
              => (i > 1 /\ isSeparator(grouped[i - 1]))
        /\ (Len(items) = 2 /\ {items[1].timestamp, items[2].timestamp} = {0, SecondsPerDay})
              => Len(separators(grouped)) = 2

\* C9 witness: the items with timestamps 0 and 86400, grouped into two separators,
\* each followed by one item.
C9_Witness ==
    /\ pc = "grouped"
    /\ Len(entries) = 2
    /\ returnTimestamp(entries[1]) = 0
    /\ returnTimestamp(entries[2]) = SecondsPerDay
    /\ Len(grouped) = 4
    /\ isSeparator(grouped[1]) /\ isSeparator(grouped[3])
    /\ grouped[3].title = grouped[4].date

\* C10: groupActivity puts a separator between two consecutive items of the sorted
\* list whenever their date strings differ (they fall on different calendar days).
C10_SeparatorWhenDateDiffers ==
    pc = "grouped" =>
        \A i \in DOMAIN grouped :
            (~isSeparator(grouped[i]) /\ prevData(grouped, i) # 0
             /\ grouped[prevData(grouped, i)].date # grouped[i].date)
            => isSeparator(grouped[i - 1])

(***************************************************************************)
(* The search filter: propMatches, applySearch, prepareData                *)
(***************************************************************************)

\* !value for a value that is a string, null or undefined
isFalsy(value) == value = NoText \/ value = <<>>

\* The props applySearch looks into, in its order
searchProps ==
    <<"date", "type", "memo", "tx_hash", "payment_hash", "payment_preimage",
      "payment_request", "dest_node_pubkey", "dest_node_alias">>

\* (variant: the prop is compared without lowering the case of either side)
propMatchesExactCase(item, searchTextSelector, prop) ==
    /\ prop \in DOMAIN item
    /\ ~isFalsy(item[prop])
    /\ includes(item[prop], searchTextSelector)

\* propMatches.call({ item, searchTextSelector }, prop)
propMatches(item, searchTextSelector, prop) ==
    /\ prop \in DOMAIN item
    /\ ~isFalsy(item[prop])
    /\ includes(toLowerCase(item[prop]), toLowerCase(searchTextSelector))

\* item.dest_addresses && item.dest_addresses.find(addr => addr.includes(searchTextSelector))
hasAddressMatch(item, searchTextSelector) ==
    /\ "dest_addresses" \in DOMAIN item
    /\ \E k \in DOMAIN item.dest_addresses :
            includes(item.dest_addresses[k], searchTextSelector)

\* The callback of data.filter in applySearch
hasMatch(item, searchTextSelector) ==
    \/ \E k \in DOMAIN searchProps : propMatches(item, searchTextSelector, searchProps[k])
    \/ hasAddressMatch(item, searchTextSelector)

\* (variant: the first item is dropped by every application)
applySearchDropsFirst(data, searchTextSelector) ==
    IF data = <<>> THEN data ELSE Tail(data)

\* (variant: nothing is shown without a search text)
applySearchNeedsText(data, searchTextSelector) ==
    IF isFalsy(searchTextSelector) THEN <<>>
    ELSE SelectSeq(data, LAMBDA item : hasMatch(item, searchTextSelector))

\* applySearch(data, searchTextSelector)
applySearch(data, searchTextSelector) ==
    IF isFalsy(searchTextSelector) THEN data
    ELSE SelectSeq(data, LAMBDA item : hasMatch(item, searchTextSelector))

\* prepareData(data, searchText)
prepareData(data, searchText) == groupActivity(applySearch(data, searchText))

\* Decorated items the searched lists are drawn from: aliases in mixed case, an
\* empty memo, addresses in mixed case, items without the optional fields.
SearchItems ==
    {addDate(Payment("p1", 0) @@ [dest_node_alias |-> str("Alice's Node")]),
     addDate(Payment("p2", SecondsPerDay) @@ [dest_node_alias |-> str("Bob")]),
     addDate(Transaction("t1", 0) @@ [dest_addresses |-> <<str("tb1x"), str("bc1Q")>>]),
     addDate(Transaction("t2", SecondsPerDay) @@ [dest_addresses |-> <<>>]),
     addDate(Invoice("i1", 0, FALSE, 0) @@ [memo |-> str("")]),
     addDate(Invoice("i2", SecondsPerDay, FALSE, 0) @@ [memo |-> str("ALICE")])}

\* The search texts: none, empty, and texts in lower, upper and mixed case.
Queries ==
    {NoText, str(""), str("alice"), str("ALICE"), str("bc1q"), str("bc1Q"),
     str("an 1"), str("z")}

InitSearchLists ==
    /\ InitTimeZone
    /\ activity = initialState
    /\ log = <<>>
    /\ lastOp = "init"
    /\ InitFetch
    /\ pc = "items"
    /\ entries = <<>>
    /\ items \in SeqsUpTo(SearchItems, MaxLen)
    /\ grouped = <<>>
    /\ query \in Queries
    /\ found = <<>>
    /\ refound = <<>>
    /\ ledger = emptyLedger
    /\ InitBackup
    /\ InitNoCountdown

\* applySearch(items, query)
ApplySearch ==
    /\ pc = "items"
    /\ found' = applySearch(items, query)
    /\ pc' = "found"
    /\ lastOp' = "applySearch"
    /\ UNCHANGED <<activity, log, fetchVars, entries, items, grouped, query, refound,
                   ledger, backup, countdown, timeZone>>

\* applySearch(found, query): the filter applied to its own output
ApplySearchAgain ==
    /\ pc = "found"
    /\ refound' = applySearch(found, query)
    /\ pc' = "refound"
    /\ lastOp' = "applySearchAgain"
    /\ UNCHANGED <<activity, log, fetchVars, entries, items, grouped, query, found,
                   ledger, backup, countdown, timeZone>>

NextSearch ==
    \/ ApplySearch
    \/ ApplySearchAgain

SpecSearch == InitSearchLists /\ [][NextSearch]_vars

\* C11: the search filter is idempotent: applying it with the same search text to
\* its own output gives that output again, for every item list and search text.
C11_SearchIdempotent == pc = "refound" => refound = found

\* A search that removed an item and kept another has been applied twice.
C11_Witness ==
    /\ pc = "refound"
    /\ ~isFalsy(query)
    /\ found # <<>>
    /\ Len(found) < Len(items)

\* C12: with a null or empty search text the filter returns the list it was given:
\* the same items in the same order.
C12_NoTextIsIdentity ==
    (pc \in {"found", "refound"} /\ isFalsy(query)) => found = items

\* The filter has been applied with the empty text to a list of several items.
C12_Witness ==
    /\ pc = "found"
    /\ query = <<>>
    /\ Len(items) >= 2

\* The two characters are the same letter, in either case, or the same character.
sameIgnoringCase(a, b) ==
    \/ a = b
    \/ a \in DOMAIN lowerOf /\ lowerOf[a] = b
    \/ b \in DOMAIN lowerOf /\ lowerOf[b] = a

\* The text holds the characters of part, one after another, from some offset on.
hasSubstring(text, part, same(_, _)) ==
    \E offset \in 0 .. Len(text) :
        \A k \in DOMAIN part :
            /\ offset + k <= Len(text)
            /\ same(text[offset + k], part[k])

\* The item is one the search for the text has to retain.
isSearched(item, text) ==
    \/ \E prop \in Range(searchProps) \cap DOMAIN item :
            /\ item[prop] # <<>>
            /\ hasSubstring(item[prop], text, sameIgnoringCase)
    \/ /\ "dest_addresses" \in DOMAIN item
       /\ \E addr \in Range(item.dest_addresses) :
            hasSubstring(addr, text, LAMBDA a, b : a = b)

\* C13: with a non-empty search text the filter retains an item exactly when one of
\* the nine named fields is present and contains the text irrespective of case, or
\* one of its destination addresses contains the text in the same case; an absent
\* field does not match; the retained items keep the order of the input.
C13_RetainsExactlyMatches ==
    (pc = "found" /\ ~isFalsy(query)) =>
        LET kept == {i \in DOMAIN items : isSearched(items[i], query)}
            rank(i) == Cardinality({k \in kept : k <= i})
        IN  /\ Len(found) = Cardinality(kept)
            /\ \A i \in kept : found[rank(i)] = items[i]

\* "alice" has been searched in a list holding an item of "Alice's Node" and an item
\* of "Bob": the first is retained and the second is not.
C13_Witness ==
    /\ pc = "found"
    /\ query = str("alice")
    /\ \E i \in DOMAIN items :
            /\ "dest_node_alias" \in DOMAIN items[i]
            /\ items[i].dest_node_alias = str("Alice's Node")
            /\ items[i] \in Range(found)
    /\ \E i \in DOMAIN items :
            /\ "dest_node_alias" \in DOMAIN items[i]
            /\ items[i].dest_node_alias = str("Bob")
            /\ items[i] \notin Range(found)

(***************************************************************************)
(* The backup provider factory (serviceFactory.js)                         *)
(***************************************************************************)

GOOGLE_DRIVE == "gdrive"
DROPBOX == "dropbox"
\* (the constant LOCAL of the source; LOCAL is a reserved word here)
LOCAL_PROVIDER == "local"

\* The provider instances the three provider modules create.
getGDrive == "GoogleDriveProvider"
getDropbox == "DropboxProvider"
getLocal == "LocalProvider"

\* (variant: an unknown name falls back to the local provider)
getBackupServiceOrLocal(provider) ==
    CASE provider = GOOGLE_DRIVE -> [kind |-> "return", value |-> getGDrive]
      [] provider = DROPBOX -> [kind |-> "return", value |-> getDropbox]
      [] OTHER -> [kind |-> "return", value |-> getLocal]

\* getBackupService(provider): the provider returned or the error thrown
getBackupService(provider) ==
    CASE provider = GOOGLE_DRIVE -> [kind |-> "return", value |-> getGDrive]
      [] provider = DROPBOX -> [kind |-> "return", value |-> getDropbox]
      [] provider = LOCAL_PROVIDER -> [kind |-> "return", value |-> getLocal]
      [] OTHER -> [kind |-> "throw", value |-> "not implemented"]

\* The arguments: the three names, names in another case or with a blank, an
\* unknown name, the empty string and no argument.
ProviderArgs ==
    {"gdrive", "dropbox", "local", "unknown", "GDrive", "LOCAL", "local ", "", Null}

InitFactory ==
    /\ activity = initialState
    /\ log = <<>>
    /\ lastOp = "init"
    /\ InitFetch
    /\ InitGroup

\* A caller asks for a provider.
GetBackupService ==
    \E provider \in ProviderArgs :
        LET outcome == getBackupService(provider) IN
        /\ backup.requests < MaxRequests
        /\ backup' = [provider |-> provider,
                      outcome |-> outcome,
                      created |-> IF outcome.kind = "return"
                                  THEN Append(backup.created, outcome.value)
                                  ELSE backup.created,
                      requests |-> backup.requests + 1]
        /\ lastOp' = "getBackupService"
        /\ UNCHANGED <<activity, log, fetchVars, pc, entries, items, grouped, query,
                       found, refound, ledger, countdown, timeZone>>

NextBackup == GetBackupService

SpecBackup == InitFactory /\ [][NextBackup]_vars

\* C14: getBackupService returns the Google Drive provider for 'gdrive', the Dropbox
\* provider for 'dropbox' and the local provider for 'local', by exact match of the
\* string; for every other argument it throws the error 'not implemented' and no
\* provider is created.
C14_ProviderByExactName ==
    [][lastOp' = "getBackupService" =>
        LET provider == backup'.provider
            outcome == backup'.outcome
            returns(instance) ==
                /\ outcome = [kind |-> "return", value |-> instance]
                /\ backup'.created = Append(backup.created, instance)
        IN  /\ provider = "gdrive" => returns("GoogleDriveProvider")
            /\ provider = "dropbox" => returns("DropboxProvider")
            /\ provider = "local" => returns("LocalProvider")
            /\ provider \notin {"gdrive", "dropbox", "local"} =>
                    /\ outcome = [kind |-> "throw", value |-> "not implemented"]
                    /\ backup'.created = backup.created]_vars

\* The factory was asked for 'gdrive' and then for 'unknown': the second request
\* threw and the Drive provider is the only one created.
C14_Witness ==
    /\ backup.provider = "unknown"
    /\ backup.outcome.kind = "throw"
    /\ backup.created = <<"GoogleDriveProvider">>

(***************************************************************************)
(* The category selectors and currentActivity                              *)
(***************************************************************************)

\* [...].map(addDate)
mapAddDate(list) == [i \in DOMAIN list |-> addDate(list[i])]

isSentTransaction(transaction) ==
    /\ ~transaction.isReceived
    /\ ~transaction.isFunding
    /\ ~transaction.isClosing
    /\ ~transaction.isPending

isReceivedTransaction(transaction) ==
    /\ transaction.isReceived
    /\ ~transaction.isFunding
    /\ ~transaction.isClosing
    /\ ~transaction.isPending

isPendingTransaction(transaction) == transaction.isPending

\* (variant: a closing transaction is not internal)
isInternalTransactionFundingOnly(transaction) == transaction.isFunding

isInternalTransaction(transaction) ==
    transaction.isFunding \/ (transaction.isClosing /\ ~transaction.isPending)

\* sentActivityRaw
sentActivityRaw(l) ==
    mapAddDate(l.payments \o SelectSeq(l.transactions, isSentTransaction))

\* receivedActivityRaw
receivedActivityRaw(l) ==
    mapAddDate(SelectSeq(l.invoices, LAMBDA invoice : invoice.settled)
                \o SelectSeq(l.transactions, isReceivedTransaction))

\* pendingActivityRaw
pendingActivityRaw(l) ==
    mapAddDate(l.paymentsSending
                \o l.transactionsSending
                \o SelectSeq(l.transactions, isPendingTransaction)
                \o SelectSeq(l.invoices,
                             LAMBDA invoice : ~invoice.settled /\ ~invoice.isExpired))

\* expiredActivityRaw
expiredActivityRaw(l) ==
    mapAddDate(SelectSeq(l.invoices, LAMBDA invoice : ~invoice.settled /\ invoice.isExpired))

\* internalActivityRaw
internalActivityRaw(l) ==
    mapAddDate(SelectSeq(l.transactions, isInternalTransaction))

\* (variant: the expired invoices are never pushed)
currentActivityWithoutExpired(state, l) ==
    LET cur == curFilter(state.filter)
        push(key, pool) == IF key \in cur THEN pool ELSE <<>>
        result == push("SENT_ACTIVITY", sentActivityRaw(l))
                    \o push("RECEIVED_ACTIVITY", receivedActivityRaw(l))
                    \o push("PENDING_ACTIVITY", pendingActivityRaw(l))
                    \o push("INTERNAL_ACTIVITY", internalActivityRaw(l))
    IN  prepareData(result, state.searchText)

\* activitySelectors.currentActivity
currentActivity(state, l) ==
    LET cur == curFilter(state.filter)
        push(key, pool) == IF key \in cur THEN pool ELSE <<>>
        result == push("SENT_ACTIVITY", sentActivityRaw(l))
                    \o push("RECEIVED_ACTIVITY", receivedActivityRaw(l))
                    \o push("PENDING_ACTIVITY", pendingActivityRaw(l))
                    \o push("EXPIRED_ACTIVITY", expiredActivityRaw(l))
                    \o push("INTERNAL_ACTIVITY", internalActivityRaw(l))
    IN  prepareData(result, state.searchText)

\* Every combination of the four flags of a transaction.
TransactionFlags ==
    [isReceived : BOOLEAN, isFunding : BOOLEAN, isClosing : BOOLEAN, isPending : BOOLEAN]

\* The transactions of the ledger: one hash with every combination of the flags.
LedgerTransactions ==
    {(Transaction("t1", SecondsPerDay) @@ [dest_addresses |-> <<str("bc1q")>>]) @@ flags :
        flags \in TransactionFlags}

\* The flags of a transaction read as a binary number.
flagsRank(transaction) ==
    (IF transaction.isReceived THEN 8 ELSE 0) + (IF transaction.isFunding THEN 4 ELSE 0)
        + (IF transaction.isClosing THEN 2 ELSE 0) + (IF transaction.isPending THEN 1 ELSE 0)

\* Lists of different transactions. The transactions carry the same time stamp and the
\* classifiers look at one transaction at a time, so one order of each set is drawn.
TransactionLists ==
    {list \in SeqsUpTo(LedgerTransactions, MaxTxs) :
        \A i, j \in DOMAIN list : i < j => flagsRank(list[i]) < flagsRank(list[j])}

\* The payments, the invoices and the entries being sent: none, one of each kind,
\* and every kind of invoice with payments at three different days.
OtherPools ==
    {[payments |-> <<>>, paymentsSending |-> <<>>, invoices |-> <<>>,
      transactionsSending |-> <<>>],
     [payments |-> <<Payment("p1", 0) @@ [dest_node_alias |-> str("Bob")]>>,
      paymentsSending |-> <<Payment("p2", SecondsPerDay \div 2)>>,
      invoices |-> <<Invoice("i1", 0, TRUE, 2 * SecondsPerDay) @@ [isExpired |-> FALSE]>>,
      transactionsSending |-> <<Transaction("t4", 2 * SecondsPerDay)>>],
     [payments |-> <<Payment("p1", 0), Payment("p3", 3 * SecondsPerDay)>>,
      paymentsSending |-> <<>>,
      invoices |-> <<Invoice("i1", 0, TRUE, SecondsPerDay) @@ [isExpired |-> TRUE],
                     Invoice("i2", SecondsPerDay, FALSE, 0) @@ [isExpired |-> TRUE],
                     Invoice("i3", 0, FALSE, 0) @@ [isExpired |-> FALSE]>>,
      transactionsSending |-> <<>>]}

\* The search texts of the view: none, a part of a date, a payment request.
ViewTexts == {NoText, str("an 1"), str("i2")}

InitView ==
    /\ InitTimeZone
    /\ \E filter \in SUBSET defaultFilter, searchText \in ViewTexts :
            activity = [initialState EXCEPT !.filter = filter, !.searchText = searchText]
    /\ log = <<>>
    /\ lastOp = "init"
    /\ InitFetch
    /\ pc = "ledger"
    /\ entries = <<>>
    /\ items = <<>>
    /\ grouped = <<>>
    /\ InitSearch
    /\ \E transactions_ \in TransactionLists, others \in OtherPools :
            ledger = [transactions |-> transactions_] @@ others
    /\ InitBackup
    /\ InitNoCountdown

\* The view evaluates activitySelectors.currentActivity(state).
CurrentActivity ==
    /\ pc = "ledger"
    /\ grouped' = currentActivity(activity, ledger)
    /\ pc' = "view"
    /\ lastOp' = "currentActivity"
    /\ UNCHANGED <<activity, log, fetchVars, entries, items, query, found, refound,
                   ledger, backup, countdown, timeZone>>

NextView == CurrentActivity

SpecView == InitView /\ [][NextView]_vars

\* The number of positions of the list that hold x.
count(x, list) == Cardinality({i \in DOMAIN list : list[i] = x})

\* The pool of a category key.
poolOf(key, l) ==
    CASE key = "SENT_ACTIVITY" -> sentActivityRaw(l)
      [] key = "RECEIVED_ACTIVITY" -> receivedActivityRaw(l)
      [] key = "PENDING_ACTIVITY" -> pendingActivityRaw(l)
      [] key = "EXPIRED_ACTIVITY" -> expiredActivityRaw(l)
      [] key = "INTERNAL_ACTIVITY" -> internalActivityRaw(l)

\* The places (pool, position) of the pools of the keys that hold x.
placesOf(x, keys, pools) ==
    {place \in UNION {{key} \X DOMAIN pools[key] : key \in keys} :
        pools[place[1]][place[2]] = x}

\* C15: the data items of currentActivity are exactly the items of the pools of the
\* enabled categories (all five when the filter set is empty) that pass the search
\* for the current search text, each as often as the enabled pools hold it, ordered
\* as grouped (newest first): nothing of a pool that is not enabled appears, and no
\* enabled item that passes the search is missing.
C15_ViewIsEnabledSearchedGrouped ==
    pc = "view" =>
        LET enabled == IF activity.filter = {} THEN defaultFilter ELSE activity.filter
            text == activity.searchText
            passes(x) == isFalsy(text) \/ isSearched(x, text)
            data == dataItems(grouped)
            pools == [key \in defaultFilter |-> poolOf(key, ledger)]
            all == UNION {Range(pools[key]) : key \in defaultFilter}
            wanted(x) ==
                IF passes(x) THEN Cardinality(placesOf(x, enabled, pools)) ELSE 0
        IN  /\ \A x \in all \cup Range(data) : count(x, data) = wanted(x)
            /\ \A i, j \in DOMAIN data : i < j => data[i].timestamp >= data[j].timestamp

\* The view was computed for the sent and expired categories only, with a search
\* text: it shows some items, the pending pool is not empty, and an item of an
\* enabled pool was removed by the search.
C15_Witness ==
    /\ pc = "view"
    /\ activity.filter = {"SENT_ACTIVITY", "EXPIRED_ACTIVITY"}
    /\ ~isFalsy(activity.searchText)
    /\ dataItems(grouped) # <<>>
    /\ pendingActivityRaw(ledger) # <<>>
    /\ \E x \in Range(sentActivityRaw(ledger)) \cup Range(expiredActivityRaw(ledger)) :
            x \notin Range(grouped)
    /\ \E x \in Range(expiredActivityRaw(ledger)) : x \in Range(grouped)

\* The categories whose classifier accepts the transaction.
categoriesOf(transaction) ==
    {key \in defaultFilter :
        \/ key = "SENT_ACTIVITY" /\ isSentTransaction(transaction)
        \/ key = "RECEIVED_ACTIVITY" /\ isReceivedTransaction(transaction)
        \/ key = "PENDING_ACTIVITY" /\ isPendingTransaction(transaction)
        \/ key = "INTERNAL_ACTIVITY" /\ isInternalTransaction(transaction)}

\* C16: whatever its flags isReceived, isFunding, isClosing and isPending, a
\* transaction is accepted by at most one of the classifiers Sent, Received, Pending
\* and Internal, and so appears at most once in the view of all categories.
C16_TransactionInOneCategory ==
    pc = "view" =>
        \A i \in DOMAIN ledger.transactions :
            LET transaction == ledger.transactions[i] IN
            /\ Cardinality(categoriesOf(transaction)) <= 1
            /\ curFilter(activity.filter) = defaultFilter =>
                    count(addDate(transaction), dataItems(grouped)) <= 1

(***************************************************************************)
(* Every action of the reducer, dispatched in any order                    *)
(***************************************************************************)

\* Filter lists given to changeFilter / addFilter: empty, one key, two keys, a key
\* twice, and all five keys (which empties the full set).
HandlerFilterLists ==
    {<<>>,
     <<"SENT_ACTIVITY">>,
     <<"SENT_ACTIVITY", "PENDING_ACTIVITY">>,
     <<"EXPIRED_ACTIVITY", "EXPIRED_ACTIVITY">>,
     <<"SENT_ACTIVITY", "RECEIVED_ACTIVITY", "PENDING_ACTIVITY",
       "EXPIRED_ACTIVITY", "INTERNAL_ACTIVITY">>}

\* The store takes one action: the reducer is applied to it.
Dispatch(action, op) ==
    /\ log' = <<action>>
    /\ activity' = dispatchAll(activity, log')
    /\ lastOp' = op
    /\ UNCHANGED <<fetchVars, groupVars>>

\* showActivityModal(itemType, itemId)
DispatchShowActivityModal ==
    \E itemType \in {"INVOICE", "PAYMENT"} :
        Dispatch([type |-> "SHOW_ACTIVITY_MODAL", itemType |-> itemType, itemId |-> "id1"],
                 "showActivityModal")

\* hideActivityModal()
DispatchHideActivityModal ==
    Dispatch([type |-> "HIDE_ACTIVITY_MODAL"], "hideActivityModal")

\* changeFilter(...filterList)
DispatchChangeFilter ==
    \E filterList \in HandlerFilterLists :
        Dispatch([type |-> "CHANGE_FILTER", filterList |-> filterList], "changeFilter")

\* addFilter(...filterList)
DispatchAddFilter ==
    \E filterList \in HandlerFilterLists :
        Dispatch([type |-> "ADD_FILTER", filterList |-> filterList], "addFilter")

\* updateSearchText(searchText = null)
DispatchUpdateSearchText ==
    \E searchText \in {NoText, str("alice")} :
        Dispatch([type |-> "UPDATE_SEARCH_TEXT", searchText |-> searchText],
                 "updateSearchText")

DispatchFetchActivityHistory ==
    Dispatch([type |-> "FETCH_ACTIVITY_HISTORY"], "fetchActivityHistory")

DispatchFetchActivityHistorySuccess ==
    Dispatch([type |-> "FETCH_ACTIVITY_HISTORY_SUCCESS"], "fetchActivityHistorySuccess")

DispatchFetchActivityHistoryFailure ==
    \E error \in Errors :
        Dispatch([type |-> "FETCH_ACTIVITY_HISTORY_FAILURE", error |-> error],
                 "fetchActivityHistoryFailure")

\* showErrorDetailsDialog(error)
DispatchOpenErrorDetailsDialog ==
    \E error \in Errors :
        Dispatch([type |-> "OPEN_ERROR_DETAILS_DIALOG", error |-> error],
                 "showErrorDetailsDialog")

\* hideErrorDetailsDialog()
DispatchCloseErrorDetailsDialog ==
    Dispatch([type |-> "CLOSE_ERROR_DETAILS_DIALOG"], "hideErrorDetailsDialog")

\* setHasNextPage(value)
DispatchSetHasNextPage ==
    \E value \in BOOLEAN :
        Dispatch([type |-> "SET_HAS_NEXT_PAGE", value |-> value], "setHasNextPage")

InitReducer ==
    /\ activity = initialState
    /\ log = <<>>
    /\ lastOp = "init"
    /\ InitFetch
    /\ InitGroup

NextReducer ==
    \/ DispatchShowActivityModal
    \/ DispatchHideActivityModal
    \/ DispatchChangeFilter
    \/ DispatchAddFilter
    \/ DispatchUpdateSearchText
    \/ DispatchFetchActivityHistory
    \/ DispatchFetchActivityHistorySuccess
    \/ DispatchFetchActivityHistoryFailure
    \/ DispatchOpenErrorDetailsDialog
    \/ DispatchCloseErrorDetailsDialog
    \/ DispatchSetHasNextPage

SpecReducer == InitReducer /\ [][NextReducer]_vars

\* The fields an action of the type may change.
ownFields(type) ==
    CASE type \in {"SHOW_ACTIVITY_MODAL", "HIDE_ACTIVITY_MODAL"} -> {"modal"}
      [] type \in {"CHANGE_FILTER", "ADD_FILTER"} -> {"filter"}
      [] type = "UPDATE_SEARCH_TEXT" -> {"searchText"}
      [] type \in {"FETCH_ACTIVITY_HISTORY", "FETCH_ACTIVITY_HISTORY_SUCCESS"} ->
            {"isActivityLoading"}
      [] type = "FETCH_ACTIVITY_HISTORY_FAILURE" ->
            {"isActivityLoading", "activityLoadingError"}
      [] type \in {"OPEN_ERROR_DETAILS_DIALOG", "CLOSE_ERROR_DETAILS_DIALOG"} ->
            {"errorDialogDetails"}
      [] type = "SET_HAS_NEXT_PAGE" -> {"hasNextPage"}

\* C17: every action of the reducer can be applied in every state, and a step that
\* applies one changes no field but its own: the modal actions only modal, the
\* filter actions only filter, UPDATE_SEARCH_TEXT only searchText, the fetch and
\* fetch-success actions only isActivityLoading, fetch-failure only isActivityLoading
\* and activityLoadingError, the dialog actions only errorDialogDetails,
\* SET_HAS_NEXT_PAGE only hasNextPage; no action changes the filters list.
C17_HandlersTotalAndFramed ==
    /\ [](/\ ENABLED DispatchShowActivityModal
          /\ ENABLED DispatchHideActivityModal
          /\ ENABLED DispatchChangeFilter
          /\ ENABLED DispatchAddFilter
          /\ ENABLED DispatchUpdateSearchText
          /\ ENABLED DispatchFetchActivityHistory
          /\ ENABLED DispatchFetchActivityHistorySuccess
          /\ ENABLED DispatchFetchActivityHistoryFailure
          /\ ENABLED DispatchOpenErrorDetailsDialog
          /\ ENABLED DispatchCloseErrorDetailsDialog
          /\ ENABLED DispatchSetHasNextPage)
    /\ [][/\ Len(log') = 1
          /\ DOMAIN activity' = DOMAIN activity
          /\ {field \in DOMAIN activity : activity'[field] # activity[field]}
                   \subseteq ownFields(log'[1].type)
          /\ activity'.filters = activity.filters]_vars

\* A fetch failure was recorded in a state where the modal, the filter, the search
\* text, the error dialog and hasNextPage had all been changed before.
C17_Witness ==
    /\ log # <<>>
    /\ log[1].type = "FETCH_ACTIVITY_HISTORY_FAILURE"
    /\ activity.activityLoadingError = log[1].error
    /\ activity.modal.itemType # Null
    /\ activity.filter \notin {defaultFilter, {}}
    /\ activity.searchText # NoText
    /\ activity.errorDialogDetails # Null
    /\ ~activity.hasNextPage

(***************************************************************************)
(* The routing of a page by loadNextPage                                   *)
(***************************************************************************)

\* The receive action the claim assigns to an item of a page.
routeOf(item) ==
    IF item.dest_addresses THEN "RECEIVE_TRANSACTIONS"
    ELSE IF item.add_index THEN "RECEIVE_INVOICES"
    ELSE "RECEIVE_PAYMENTS"

\* The actions are those of a correct routing of the page: SET_HAS_NEXT_PAGE with the
\* page's flag comes first, and for each kind the items of that kind, in page order,
\* are the payload of exactly one receive action, which is absent when there is none.
isRouted(page, actions) ==
    /\ actions # <<>>
    /\ actions[1] = [type |-> "SET_HAS_NEXT_PAGE", value |-> page.hasNextPage]
    /\ (Len(actions) = 1) <=> (page.items = <<>>)
    /\ \A k \in 2 .. Len(actions) :
            actions[k].type \in {"RECEIVE_TRANSACTIONS", "RECEIVE_INVOICES", "RECEIVE_PAYMENTS"}
    /\ \A route \in {"RECEIVE_TRANSACTIONS", "RECEIVE_INVOICES", "RECEIVE_PAYMENTS"} :
            LET ofRoute == SelectSeq(page.items, LAMBDA item : routeOf(item) = route)
                at == {k \in 2 .. Len(actions) : actions[k].type = route}
            IN  IF ofRoute = <<>> THEN at = {}
                ELSE /\ Cardinality(at) = 1
                     /\ \A k \in at : actions[k].items = ofRoute

\* C18: when a page fetch succeeds, loadNextPage dispatches SET_HAS_NEXT_PAGE first
\* and then hands every item of the page to exactly one per-kind reducer: an item
\* with dest_addresses to receiveTransactions, otherwise an item with add_index to
\* receiveInvoices, otherwise to receivePayments; a kind without items in the page
\* gets no receive action. The page is the one the paginator resolved with in the
\* step; the actions are those the step dispatched.
C18_PageRouted ==
    lastOp = "pageResolved" =>
        /\ Cardinality(resolved) = 1
        /\ \A page \in resolved : isRouted(page, log)

\* A page of three items has been routed: the two items with dest_addresses, one of
\* them with add_index too, went to the transactions in one action and in page order,
\* the item between them, with add_index only, went to the invoices.
C18_Witness ==
    /\ lastOp = "pageResolved"
    /\ \E page \in resolved :
            /\ Len(page.items) = 3
            /\ page.items[1].dest_addresses /\ ~page.items[1].add_index
            /\ ~page.items[2].dest_addresses /\ page.items[2].add_index
            /\ page.items[3].dest_addresses /\ page.items[3].add_index
            /\ log = <<[type |-> "SET_HAS_NEXT_PAGE", value |-> page.hasNextPage],
                       [type |-> "RECEIVE_INVOICES", items |-> <<page.items[2]>>],
                       [type |-> "RECEIVE_TRANSACTIONS",
                        items |-> <<page.items[1], page.items[3]>>]>>

(***************************************************************************)
(* CHANGE_FILTER as a symmetric difference                                 *)
(***************************************************************************)

\* C19: CHANGE_FILTER toggles each key of its list on its own: for a list of distinct
\* keys the new filter set is the symmetric difference of the old set and the list
\* (keys of the list in the set are removed, keys of the list not in the set are
\* added, every other key is kept); a key the list names twice is toggled twice and
\* is in the new set exactly when it was in the old one.
C19_ChangeFilterSymmetricDifference ==
    [][lastOp' = "changeFilter" =>
        LET list == log'[1].filterList
            keys == Range(list)
            old == activity.filter
            new == activity'.filter
            distinct == \A i, j \in DOMAIN list : i # j => list[i] # list[j]
        IN  /\ distinct =>
                /\ \A key \in keys \cap old : key \notin new
                /\ \A key \in keys \ old : key \in new
                /\ new \ keys = old \ keys
            /\ \A key \in keys :
                Cardinality({i \in DOMAIN list : list[i] = key}) = 2 =>
                    (key \in new <=> key \in old)]_vars

\* A list of two different keys was toggled: its first key has been added and its
\* second key has been removed.
C19_Witness ==
    /\ lastOp = "changeFilter"
    /\ Len(log[1].filterList) = 2
    /\ log[1].filterList[1] # log[1].filterList[2]
    /\ log[1].filterList[1] \in activity.filter
    /\ log[1].filterList[2] \notin activity.filter

(***************************************************************************)
(* The separators of groupActivity, exactly                                *)
(***************************************************************************)

\* C20: groupActivity puts a separator right before a data item that is not the
\* first exactly when the difference in seconds between the timestamp of the data
\* item before it and its own, divided by 86400 and rounded to the nearest integer,
\* is at least 1 (that is, when the difference is at least half of 86400); the title
\* of a separator is the date string of the item that follows it; a separator is
\* never followed by another separator nor by the end of the list, and the empty
\* list is grouped into the empty list.
C20_SeparatorExactlyOnRoundedDay ==
    pc = "grouped" =>
        /\ items = <<>> => grouped = <<>>
        /\ \A i \in DOMAIN grouped :
            /\ isSeparator(grouped[i]) =>
                    /\ i < Len(grouped)
                    /\ ~isSeparator(grouped[i + 1])
                    /\ grouped[i].title = grouped[i + 1].date
            /\ (~isSeparator(grouped[i]) /\ prevData(grouped, i) # 0) =>
                    (isSeparator(grouped[i - 1]) <=>
                        2 * (grouped[prevData(grouped, i)].timestamp - grouped[i].timestamp)
                            >= SecondsPerDay)

\* Three items were grouped: the second is exactly half a day older than the first
\* and has a separator before it, the third is one second older than the second and
\* has none.
C20_Witness ==
    /\ pc = "grouped"
    /\ Len(grouped) = 5
    /\ isSeparator(grouped[1]) /\ isSeparator(grouped[3])
    /\ grouped[2].timestamp - grouped[4].timestamp = SecondsPerDay \div 2
    /\ grouped[4].timestamp - grouped[5].timestamp = 1
    /\ grouped[3].title = grouped[4].date

(***************************************************************************)
(* The classifiers cover every invoice and every transaction               *)
(***************************************************************************)

\* The categories whose pool holds the decorated entry.
poolsHolding(entry, l) ==
    {key \in defaultFilter : addDate(entry) \in Range(poolOf(key, l))}

\* C21: every invoice is in exactly one pool: Received when settled, Pending when
\* neither settled nor expired, Expired when not settled and expired; every
\* transaction, whatever its flags isReceived, isFunding, isClosing and isPending,
\* is in at least one of the pools Sent, Received, Pending and Internal; so the view
\* computed with the empty or the full filter set and without a search text misses
\* no invoice and no transaction of the ledger.
C21_ClassifiersCoverEveryItem ==
    pc = "view" =>
        LET unrestricted ==
                /\ activity.filter \in {{}, defaultFilter}
                /\ isFalsy(activity.searchText)
        IN  /\ \A i \in DOMAIN ledger.invoices :
                LET invoice == ledger.invoices[i] IN
                /\ poolsHolding(invoice, ledger) =
                        IF invoice.settled THEN {"RECEIVED_ACTIVITY"}
                        ELSE IF invoice.isExpired THEN {"EXPIRED_ACTIVITY"}
                        ELSE {"PENDING_ACTIVITY"}
                /\ unrestricted => addDate(invoice) \in Range(grouped)
            /\ \A i \in DOMAIN ledger.transactions :
                LET transaction == ledger.transactions[i] IN
                /\ poolsHolding(transaction, ledger)
                        \cap {"SENT_ACTIVITY", "RECEIVED_ACTIVITY", "PENDING_ACTIVITY",
                              "INTERNAL_ACTIVITY"} # {}
                /\ unrestricted => addDate(transaction) \in Range(grouped)

\* The view of the empty filter set without a search text shows a settled and
\* expired invoice, an expired one, an open one, and a received closing transaction.
C21_Witness ==
    /\ pc = "view"
    /\ activity.filter = {}
    /\ isFalsy(activity.searchText)
    /\ Len(ledger.invoices) = 3
    /\ \A i \in DOMAIN ledger.invoices : addDate(ledger.invoices[i]) \in Range(grouped)
    /\ \E i \in DOMAIN ledger.transactions :
            /\ ledger.transactions[i].isClosing
            /\ ledger.transactions[i].isReceived
            /\ ~ledger.transactions[i].isPending
            /\ ~ledger.transactions[i].isFunding
            /\ addDate(ledger.transactions[i]) \in Range(grouped)

(***************************************************************************)
(* fetchActivityHistory and the page fetch it starts                       *)
(***************************************************************************)

\* C22: fetchActivityHistory does not wait for the page fetch. One run dispatches
\* FETCH_ACTIVITY_HISTORY and then FETCH_ACTIVITY_HISTORY_SUCCESS or
\* FETCH_ACTIVITY_HISTORY_FAILURE, so isActivityLoading is false when it returns;
\* the page fetch it starts when hasNextPage holds is still outstanding at that
\* moment and none of its items has been received.
C22_LoadingEndsBeforePageArrives ==
    [][lastOp' = "fetchActivityHistory" =>
        /\ Len(log') = 2
        /\ log'[1].type = "FETCH_ACTIVITY_HISTORY"
        /\ log'[2].type \in {"FETCH_ACTIVITY_HISTORY_SUCCESS",
                             "FETCH_ACTIVITY_HISTORY_FAILURE"}
        /\ ~activity'.isActivityLoading
        /\ (log'[2].type = "FETCH_ACTIVITY_HISTORY_SUCCESS" /\ activity.hasNextPage) =>
                /\ \E c \in inflight' \ inflight : c.origin = "fetchActivityHistory"
                /\ <<invoices', payments', transactions'>>
                        = <<invoices, payments, transactions>>]_vars

\* fetchActivityHistory has returned: isActivityLoading is false, the page fetch it
\* started is outstanding and no item has been received.
C22_Witness ==
    /\ lastOp = "fetchActivityHistory"
    /\ ~activity.isActivityLoading
    /\ \E c \in inflight : c.origin = "fetchActivityHistory" /\ c.seq = calls
    /\ invoices \cup payments \cup transactions = {}

(***************************************************************************)
(* hasNextPage and the end of the pagination                               *)
(***************************************************************************)

\* The actions of the step hold one of the type.
dispatches(actions, type) == \E k \in DOMAIN actions : actions[k].type = type

\* C23: loadNextPage invokes the paginator, and later dispatches, only when
\* hasNextPage is true in the state it reads when called; otherwise it dispatches
\* nothing. hasNextPage is changed by SET_HAS_NEXT_PAGE only and resetActivity leaves
\* it as it is, so from the moment a page has set hasNextPage to false it stays
\* false and no later loadNextPage requests a page, also after resetActivity.
C23_NoFetchAfterLastPage ==
    [][/\ lastOp' = "loadNextPage" =>
            /\ log' = <<>>
            /\ IF activity.hasNextPage
               THEN calls' = calls + 1 /\ Cardinality(inflight') = Cardinality(inflight) + 1
               ELSE calls' = calls /\ inflight' = inflight
       /\ activity'.hasNextPage # activity.hasNextPage =>
            dispatches(log', "SET_HAS_NEXT_PAGE")
       /\ lastOp' = "resetActivity" => activity'.hasNextPage = activity.hasNextPage
       /\ ~activity.hasNextPage =>
            /\ ~activity'.hasNextPage
            /\ calls' = calls]_vars

(***************************************************************************)
(* The recorded fetch error                                                *)
(***************************************************************************)

\* C24: activityLoadingError is changed by FETCH_ACTIVITY_HISTORY_FAILURE only, which
\* sets it to the error of the action; FETCH_ACTIVITY_HISTORY and
\* FETCH_ACTIVITY_HISTORY_SUCCESS do not clear it, so an error once recorded stays
\* through every other action until a later failure replaces it.
C24_ErrorKeptUntilNextFailure ==
    [][IF log'[1].type = "FETCH_ACTIVITY_HISTORY_FAILURE"
       THEN activity'.activityLoadingError = log'[1].error
       ELSE activity'.activityLoadingError = activity.activityLoadingError]_vars

\* A new fetch has been started while the error of an earlier failure is recorded.
C24_Witness ==
    /\ log # <<>>
    /\ log[1].type = "FETCH_ACTIVITY_HISTORY"
    /\ activity.isActivityLoading
    /\ activity.activityLoadingError \in Errors

(***************************************************************************)
(* The Countdown component (src/unnamed/part_000)                          *)
(***************************************************************************)

\* state.timer: null. Timer ids are positive.
NoTimer == 0

\* The values of state.isExpired: null, false, true.
NotYetKnown == Null
NotExpired == "false"
Expired == "true"

\* Date.now() at the mount, in milliseconds
Now == 100000

\* Math.round(ms / 1000)
roundSeconds(ms) == (2 * ms + 1000) \div 2000

\* props.offset: a number of seconds, or a Date (its time in milliseconds). Past,
\* present and future offsets; Now + 499 is rounded to 0 seconds, Now + 1500 to 2.
Offsets ==
    {[isDate |-> FALSE, value |-> -1],
     [isDate |-> FALSE, value |-> 0],
     [isDate |-> FALSE, value |-> 2],
     [isDate |-> TRUE, value |-> Now - 1],
     [isDate |-> TRUE, value |-> Now + 499],
     [isDate |-> TRUE, value |-> Now + 1500]}

\* new Countdown(props): state = { isExpired: null, timer: null }. updates counts
\* the runs of the interval callback on the component.
Countdown(offset) ==
    [phase |-> "constructed",
     props |-> [offset |-> offset],
     state |-> [isExpired |-> NotYetKnown, timer |-> NoTimer],
     expiresIn |-> 0,
     updates |-> 0]

\* let expiresIn = offset; if (offset instanceof Date) expiresIn = offset - Date.now()
localExpiresIn(offset) == IF offset.isDate THEN offset.value - Now ELSE offset.value

\* componentDidMount() of the component i
componentDidMount(cd, i) ==
    LET c == cd.components[i]
        expiresIn == localExpiresIn(c.props.offset)
        thisExpiresIn == IF c.props.offset.isDate THEN roundSeconds(expiresIn) ELSE expiresIn
    IN  IF expiresIn >= 0
        THEN [components |->
                [cd.components EXCEPT ![i] =
                    [c EXCEPT !.phase = "mounted",
                              !.expiresIn = thisExpiresIn,
                              !.state = [isExpired |-> NotExpired, timer |-> cd.nextTimer]]],
              timers |-> cd.timers \cup
                    {[id |-> cd.nextTimer, owner |-> i, delay |-> thisExpiresIn * 1000]},
              nextTimer |-> cd.nextTimer + 1]
        ELSE [cd EXCEPT !.components[i] =
                    [c EXCEPT !.phase = "mounted",
                              !.expiresIn = thisExpiresIn,
                              !.state = [isExpired |-> Expired, timer |-> NoTimer]]]

\* (variant: the timer is left running at unmount)
componentWillUnmountKeepsTimer(cd, i) ==
    [cd EXCEPT !.components[i].phase = "unmounted"]

\* componentWillUnmount() of the component i: clearInterval(this.state.timer)
componentWillUnmount(cd, i) ==
    [cd EXCEPT !.components[i].phase = "unmounted",
               !.timers = {t \in cd.timers : t.id # cd.components[i].state.timer}]

\* () => this.setState({ isExpired: true }), run by the interval timer t
intervalCallback(cd, t) ==
    [cd EXCEPT !.components[t.owner].state.isExpired = Expired,
               !.components[t.owner].updates = @ + 1]

InitCountdown ==
    /\ activity = initialState
    /\ log = <<>>
    /\ lastOp = "init"
    /\ InitFetch
    /\ InitAnyTimeZone
    /\ pc = "idle"
    /\ entries = <<>>
    /\ items = <<>>
    /\ grouped = <<>>
    /\ InitSearch
    /\ ledger = emptyLedger
    /\ InitBackup
    /\ \E offsets \in [1 .. MaxCountdowns -> Offsets] :
            countdown = [components |-> [i \in 1 .. MaxCountdowns |-> Countdown(offsets[i])],
                         timers |-> {},
                         nextTimer |-> 1]

\* React mounts the component i.
Mount ==
    \E i \in DOMAIN countdown.components :
        /\ countdown.components[i].phase = "constructed"
        /\ countdown' = componentDidMount(countdown, i)
        /\ lastOp' = "componentDidMount"
        /\ UNCHANGED <<activity, log, fetchVars, pc, entries, items, grouped, query,
                       found, refound, ledger, backup, timeZone>>

\* An interval timer that is set fires (again): its callback runs.
TimerFires ==
    \E t \in countdown.timers :
        /\ countdown.components[t.owner].updates < MaxFires
        /\ countdown' = intervalCallback(countdown, t)
        /\ lastOp' = "intervalCallback"
        /\ UNCHANGED <<activity, log, fetchVars, pc, entries, items, grouped, query,
                       found, refound, ledger, backup, timeZone>>

\* React unmounts the component i.
Unmount ==
    \E i \in DOMAIN countdown.components :
        /\ countdown.components[i].phase = "mounted"
        /\ countdown' = componentWillUnmount(countdown, i)
        /\ lastOp' = "componentWillUnmount"
        /\ UNCHANGED <<activity, log, fetchVars, pc, entries, items, grouped, query,
                       found, refound, ledger, backup, timeZone>>

NextCountdown ==
    \/ Mount
    \/ TimerFires
    \/ Unmount

SpecCountdown == InitCountdown /\ [][NextCountdown]_vars

\* The interval timers that are set and belong to the component i.
timersOf(i) == {t \in countdown.timers : t.owner = i}

\* C25: a Countdown mounted with a negative offset is expired at once and sets no
\* timer; mounted with an offset that is not negative it is not expired and has
\* exactly one timer, and it is expired once the timer has fired; isExpired, once
\* true, is never anything else again; unmounting clears the timer, and nothing of
\* an unmounted component changes afterwards.
C25_ExpiryMonotonic ==
    /\ [](\A i \in DOMAIN countdown.components :
            LET c == countdown.components[i]
                negative ==
                    IF c.props.offset.isDate THEN c.props.offset.value < Now
                    ELSE c.props.offset.value < 0
            IN  /\ c.phase = "constructed" =>
                    c.state.isExpired = NotYetKnown /\ timersOf(i) = {}
                /\ (c.phase = "mounted" /\ negative) =>
                    c.state.isExpired = Expired /\ timersOf(i) = {}
                /\ (c.phase = "mounted" /\ ~negative) =>
                    /\ Cardinality(timersOf(i)) = 1
                    /\ \A t \in timersOf(i) : t.id = c.state.timer
                    /\ c.state.isExpired = IF c.updates = 0 THEN NotExpired ELSE Expired
                /\ c.phase = "unmounted" => timersOf(i) = {})
    /\ [][\A i \in DOMAIN countdown.components :
            LET c == countdown.components[i]
                after == countdown'.components[i]
            IN  /\ c.state.isExpired = Expired => after.state.isExpired = Expired
                /\ c.phase = "unmounted" => after = c]_vars

\* Two components have been unmounted: one mounted with a negative offset, which
\* never had a timer, and one whose timer had fired; no timer is left.
C25_Witness ==
    /\ \E i \in DOMAIN countdown.components :
            /\ countdown.components[i].phase = "unmounted"
            /\ countdown.components[i].state.timer = NoTimer
            /\ countdown.components[i].state.isExpired = Expired
    /\ \E i \in DOMAIN countdown.components :
            /\ countdown.components[i].phase = "unmounted"
            /\ countdown.components[i].state.timer # NoTimer
            /\ countdown.components[i].updates > 0
            /\ countdown.components[i].state.isExpired = Expired
    /\ countdown.timers = {}

=============================================================================
